---- MODULE Spec2Model ----
(***************************************************************************)
(* RNAsketch: the constraint generation optimizer                          *)
(* (designs/constrained_generation_eval.py) together with the parts of     *)
(* the Design container (RNAsketch/Design.py) it reads.                    *)
(*                                                                         *)
(* Python values are kept with their type, <<type, value>>, because the    *)
(* optimizer compares values of different types (a dict with a str) and    *)
(* Python answers such a comparison with False.                            *)
(***************************************************************************)
EXTENDS Integers, Sequences, FiniteSets, TLC

\* ------------------------------------------------------------- bounds
\* sequences the sampler can produce are 1..NSeq
NSeq == 4
\* secondary structures the folding oracle can return are 1..NStruct
NStruct == 3
\* states of the Design; state k has target structure k+1
NStates == 2
\* largest value of the parameter exit
MaxExit == 2
\* largest value of the parameter num_neg_constraints
MaxCap == 2
\* largest number of objective functions
MaxObj == 2
\* scores and energies are 0..ScoreRange-1
ScoreRange == 3
\* largest value of the parameter max_eos_diff
MaxEosDiff == 1

\* ------------------------------------------------------------- program constants
\* the stall threshold of the inner loop
CgLimit == 10000
\* what the stall escalation adds to sample_steps for the history size
HistoryPad == 100

Seqs == 1..NSeq
Structs == 1..NStruct
\* a run with parameter e never draws more samples than this in the model
MaxSamples(e) == e + 3

\* ------------------------------------------------------------- Python values
PyNone == <<"none", 0>>
PyStr(v) == <<"str", v>>
PyInt(v) == <<"int", v>>
PyDict(f) == <<"dict", f>>

\* Python's ==: values of different types are unequal
PyEq(a, b) == a[1] = b[1] /\ a[2] = b[2]

\* Python's `x in list`
PyIn(x, list) == \E i \in 1..Len(list) : PyEq(x, list[i])

\* Python's truth value of a sequence attribute: None and '' are false
PyTruthy(v) == v[1] = "str"

\* ------------------------------------------------------------- Design
\* the keys of Design.state: str(key) of the position in the structures list
StateKeys == {PyStr(k) : k \in 0..NStates-1}

\* the target structure of the state with key k
StateStructure(k) == PyStr(IF k[2] + 1 <= NStruct THEN k[2] + 1 ELSE NStruct)

\* Design.structures: the structures of all states, without repetitions
RECURSIVE StructuresFrom(_, _)
StructuresFrom(k, result) ==
    IF k >= NStates THEN result
    ELSE StructuresFrom(k + 1,
            IF ~PyIn(StateStructure(PyStr(k)), result)
            THEN Append(result, StateStructure(PyStr(k)))
            ELSE result)

DesignStructures == StructuresFrom(0, <<>>)

\* Design.number_of_structures (the cache is filled on the first read; the
\* optimizer never adds a state)
NumberOfStructures == Len(DesignStructures)

\* Design.classtype of the two classes the drivers construct
ClassType(cls) ==
    CASE cls = "vrnaDesign" -> "vrna"
      [] cls = "nupackDesign" -> "nupack"
      [] cls = "pkissDesign" -> "pkiss"
      [] cls = "hotknotsDesign" -> "hotknots"
      [] OTHER -> "None"

\* ------------------------------------------------------------- oracles
\* State.mfe_structure: the MFE structure of a sequence (every state of a
\* Design built by the drivers folds at the same temperature)
FoldMfe(seq) == ((seq - 1) % NStruct) + 1

\* Design.mfe_structure: a dict from the state keys to the MFE structures
DesignMfeStructure(seq) == PyDict([k \in StateKeys |-> FoldMfe(seq)])

\* the energy of a sequence folded into a structure (RNA.energy_of_struct,
\* nupack.energy)
EnergyOfStruct(seq, struct) == (seq + struct) % ScoreRange

\* Design.eos: a dict from the state keys to the energy of the target
StateEos(seq, k) == EnergyOfStruct(seq, StateStructure(k)[2])
DesignEos(seq) == [k \in StateKeys |-> StateEos(seq, k)]

\* obj_fun(design) of the i-th objective function
Objective(i, seq) == (i * seq) % ScoreRange

\* the list of scores of a sequence (lines 178-181 and 259-264)
ObjectiveScores(n, seq) == [i \in 1..n |-> Objective(i, seq)]

\* ------------------------------------------------------------- sampler
\* dg.revert_sequence(sample_count): the sequence the sampler held before the
\* mutation that returned sample_count
RevertSequence(current, previous) == previous

\* ------------------------------------------------------------- optimizer
VARIABLES
    pc,                 \* position in constraint_generation_optimization_eval
    cls,                \* class of the Design object
    exit,               \* parameter exit
    num_neg_constraints,\* parameter num_neg_constraints
    max_eos_diff,       \* parameter max_eos_diff
    nobj,               \* len(objective_functions)
    design_seq,         \* design._sequence
    dg_seq,             \* dg.get_sequence()
    dg_prev,            \* what dg.revert_sequence(sample_count) restores
    history_size,       \* last value given to dg.set_history_size, 0 if none
    neg_constraints,    \* the deque of negative constraints, oldest first
    scores,
    count,
    number_of_samples,
    number_samples,
    number_mfes,
    number_objectives,
    number_eos,
    sample_steps,
    cg_count,
    perfect,
    idx,                \* position of the walk over reversed(neg_constraints)
    err,                \* the exception that ended the run, "" if none
    \* observations of the run, read by the properties only
    scores0,            \* the scores computed before the first outer iteration
    since_accept,       \* outer iterations completed since the last acceptance
    last,               \* what the last completed outer iteration did
    compat,             \* the last answer of rd.sequence_structure_compatible
    rejected,           \* candidates the ledger walk rejected since cg_count was reset
    drawn,              \* samples drawn since cg_count was reset
    history_calls,      \* the values given to dg.set_history_size, in order
    \* a Design object on its own (Design.py)
    d_state,            \* self.state: state key -> target structure
    d_sequence,         \* self._sequence
    d_cache,            \* per state: the sequence its derived results were
                        \* computed for, None when it holds none
    d_number,           \* self._number_of_structures, 0 for None
    d_err,              \* the exception of the last operation, "" if none
    d_last,             \* the last operation on the Design and its argument
                        \* or result
    \* the run driver of designs/pseudoknot-multistable.py
    p_pc,               \* position in main and optimization_run
    a_number,           \* args.number
    a_jump,             \* args.jump
    a_exit,             \* args.exit
    a_mode,             \* args.mode
    a_csv,              \* args.csv
    p_dg,               \* dg: "None" or "built"
    p_construction,     \* how the construction of the dependency graph ended
    p_reported,         \* an error message was written to stderr
    p_attempts,         \* calls of rd.DependencyGraphMT
    p_n,                \* optimization runs started
    p_seq,              \* dg.get_sequence()
    p_score,            \* score of optimization_run
    p_count,            \* count of optimization_run
    p_jumps,            \* jumps of optimization_run
    p_i,                \* i of optimization_run
    p_result,           \* the Result object of the last run
    p_report,           \* the csv columns mfe_reached and diff_eos_mfe of the last run
    p_trial,            \* what the last trial did, read by the properties only
    p_left,             \* what the run before the current one left behind
    \* a call of get_Design (Design.py)
    g_pc,
    g_package,          \* argument package
    g_temperature,      \* argument temperature, None when omitted
    g_states,           \* number of structures given
    g_design,           \* the Design returned: its class and the temperature of each State
    g_err               \* the exception raised, "" if none

\* ------------------------------------------------------------- benchmark
VARIABLES
    b_pc,               \* position in main of optimization_duration_multithread.py
    b_progress,         \* args.progress
    b_d,                \* d of the loop of line 72
    b_n,                \* n of the loop of line 74
    b_seq,              \* the sequence the sampler dg holds
    b_score,            \* score
    b_count,            \* count
    b_i,                \* iterations of the loop of line 86 made in this trial
    b_result_seq,       \* result_seq
    b_mutated,          \* whether the last iteration called dg.mutate_global()
    b_results           \* len(results)

vars == <<pc, cls, exit, num_neg_constraints, max_eos_diff, nobj, design_seq,
          dg_seq, dg_prev, history_size, neg_constraints, scores, count,
          number_of_samples, number_samples, number_mfes, number_objectives,
          number_eos, sample_steps, cg_count, perfect, idx, err,
          scores0, since_accept, last, compat, rejected, drawn, history_calls,
          d_state, d_sequence, d_cache, d_number, d_err, d_last,
          p_pc, a_number, a_jump, a_exit, a_mode, a_csv, p_dg, p_construction,
          p_reported, p_attempts, p_n, p_seq, p_score, p_count, p_jumps, p_i,
          p_result, p_report, p_trial, p_left,
          g_pc, g_package, g_temperature, g_states, g_design, g_err,
          b_pc, b_progress, b_d, b_n, b_seq, b_score, b_count, b_i,
          b_result_seq, b_mutated, b_results>>

params == <<cls, exit, num_neg_constraints, max_eos_diff, nobj>>
counters == <<number_of_samples, number_samples, number_mfes,
              number_objectives, number_eos>>
observed == <<scores0, since_accept, last, compat>>
stall == <<rejected, drawn, history_calls>>
dvars == <<d_state, d_sequence, d_cache, d_number, d_err, d_last>>
args == <<a_number, a_jump, a_exit, a_mode, a_csv>>
pvars == <<p_pc, args, p_dg, p_construction, p_reported, p_attempts, p_n, p_seq,
           p_score, p_count, p_jumps, p_i, p_result, p_report, p_trial, p_left>>
gvars == <<g_pc, g_package, g_temperature, g_states, g_design, g_err>>
bvars == <<b_pc, b_progress, b_d, b_n, b_seq, b_score, b_count, b_i,
           b_result_seq, b_mutated, b_results>>
ovars == <<pc, params, design_seq, dg_seq, dg_prev, history_size, neg_constraints,
           scores, count, counters, sample_steps, cg_count, perfect, idx, err,
           observed, stall>>
\* what the actions of one part leave alone
outside_optimizer == <<dvars, pvars, gvars, bvars>>
outside_design == <<ovars, pvars, gvars, bvars>>
outside_driver == <<ovars, dvars, gvars, bvars>>
outside_get_Design == <<ovars, dvars, pvars, bvars>>
outside_benchmark == <<ovars, dvars, pvars, gvars>>

NoLast == [branch |-> "none", cand |-> 0, full |-> FALSE, prev |-> <<>>]

\* mutant: a plain list instead of a deque with maxlen
DequeAppendUnbounded(d, x, maxlen) == Append(d, x)

\* collections.deque(maxlen=n).append(x): a full deque drops its oldest entry
DequeAppend(d, x, maxlen) ==
    IF maxlen = 0 THEN d
    ELSE IF Len(d) = maxlen THEN Append(Tail(d), x)
    ELSE Append(d, x)

\* lines 266-272: the loop over the scores, with its break
RECURSIVE BetterFrom(_, _, _, _)
BetterFrom(i, b, this_scores, best) ==
    IF i > Len(best) THEN b
    ELSE IF this_scores[i] > best[i] THEN FALSE
    ELSE IF this_scores[i] < best[i] THEN BetterFrom(i + 1, TRUE, this_scores, best)
    ELSE BetterFrom(i + 1, b, this_scores, best)

better(this_scores, best) == BetterFrom(1, FALSE, this_scores, best)

\* line 257: design.mfe_structure in design.structures
MfeReached(seq) == PyIn(DesignMfeStructure(seq), DesignStructures)

\* mutant: the exit test one iteration early
ExitConditionOffByOne(c, e) == c >= e

\* line 293
ExitCondition(c, e) == c > e

\* mutant: the reset of line 279 outside its branch
CountAfterReset(accepted, c) == 0

\* mutant: line 253 left out
CountAfterStuck(accepted, c) == IF accepted THEN 0 ELSE c

\* the counter of unsuccessful outer iterations (lines 253 and 279)
CountAfter(accepted, c) == IF accepted THEN 0 ELSE c + 1

\* mutant: line 275 outside the test of better and of the MFE structure
BestAfterUnconditional(reached, this_scores, best) == this_scores

\* mutant: a better candidate's scores are kept whatever it folds into
BestAfterAnyFold(reached, this_scores, best) ==
    IF better(this_scores, best) THEN this_scores ELSE best

\* lines 257-275: the best scores after the candidate was looked at
BestAfter(reached, this_scores, best) ==
    IF reached /\ better(this_scores, best) THEN this_scores ELSE best

\* lines 228-233: the energy of the negative constraint, by backend
NegEos(classtype, seq, negc) ==
    IF classtype \in {"vrnaDesign", "nupackDesign"}
    THEN IF negc[1] = "str" THEN PyInt(EnergyOfStruct(seq, negc[2]))
         ELSE <<"raise", "TypeError">>
    ELSE <<"raise", "ValueError">>

\* lines 236-244: design.eos[k] for k in range(number_of_structures)
RECURSIVE EosGap(_, _, _, _)
EosGap(k, neg_eos, seq, maxdiff) ==
    IF k >= NumberOfStructures THEN "pass"
    ELSE IF PyInt(k) \notin StateKeys THEN "KeyError"
    ELSE IF neg_eos - DesignEos(seq)[PyInt(k)] < maxdiff THEN "reject"
    ELSE EosGap(k + 1, neg_eos, seq, maxdiff)

\* lines 225-247 for one compatible negative constraint
NegVerdict(classtype, seq, negc, maxdiff) ==
    LET e == NegEos(classtype, seq, negc)
    IN  IF e[1] = "raise" THEN e[2]
        ELSE EosGap(0, e[2], seq, maxdiff)

\* the locals of the function and the sampler before the call
InitLocals ==
    /\ pc = "init"
    /\ dg_seq = 1
    /\ dg_prev = 1
    /\ history_size = 0
    /\ neg_constraints = <<>>
    /\ scores = <<>>
    /\ count = 0
    /\ number_of_samples = 0
    /\ number_samples = 0
    /\ number_mfes = 0
    /\ number_objectives = 0
    /\ number_eos = 0
    /\ sample_steps = 1
    /\ cg_count = 0
    /\ perfect = TRUE
    /\ idx = 0
    /\ err = ""
    /\ scores0 = <<>>
    /\ since_accept = 0
    /\ last = NoLast
    /\ compat = "none"
    /\ rejected = 0
    /\ drawn = 0
    /\ history_calls = <<>>

\* the optimizer model does not look inside the Design object
NoDesign ==
    /\ d_state = <<>>
    /\ d_sequence = PyNone
    /\ d_cache = <<>>
    /\ d_number = 0
    /\ d_err = ""
    /\ d_last = [op |-> "none", arg |-> PyNone]

NoResult == [sequence |-> 0, score |-> 0, number_of_mutations |-> 0,
             eos |-> <<>>, mfe_energy |-> 0]
NoReport == [mfe_reached |-> <<>>, diff_eos_mfe |-> <<>>]
NoTrial == [kind |-> "none", cand |-> 0, this_score |-> 0, accepted |-> FALSE,
            before |-> 0, reset |-> FALSE]
NoLeft == [sequence |-> 0, score |-> 0]

\* no run driver is looked at
NoDriver ==
    /\ p_pc = "off"
    /\ a_number = 0
    /\ a_jump = 0
    /\ a_exit = 0
    /\ a_mode = "sample"
    /\ a_csv = FALSE
    /\ p_dg = "None"
    /\ p_construction = "none"
    /\ p_reported = FALSE
    /\ p_attempts = 0
    /\ p_n = 0
    /\ p_seq = 0
    /\ p_score = 0
    /\ p_count = 0
    /\ p_jumps = 0
    /\ p_i = 0
    /\ p_result = NoResult
    /\ p_report = NoReport
    /\ p_trial = NoTrial
    /\ p_left = NoLeft

\* no call of get_Design is looked at
\* main of optimization_duration_multithread.py is not running
NoBenchmark ==
    /\ b_pc = "off"
    /\ b_progress = FALSE
    /\ b_d = 0
    /\ b_n = 0
    /\ b_seq = 0
    /\ b_score = 0
    /\ b_count = 0
    /\ b_i = 0
    /\ b_result_seq = 0
    /\ b_mutated = FALSE
    /\ b_results = 0

NoGetDesign ==
    /\ g_pc = "off"
    /\ g_package = ""
    /\ g_temperature = PyNone
    /\ g_states = 0
    /\ g_design = <<>>
    /\ g_err = ""

Init ==
    /\ cls \in {"vrnaDesign", "nupackDesign"}
    /\ exit \in 0..MaxExit
    /\ num_neg_constraints \in 0..MaxCap
    /\ max_eos_diff \in 0..MaxEosDiff
    /\ nobj \in 1..MaxObj
    /\ design_seq \in {PyNone} \cup {PyStr(s) : s \in Seqs}
    /\ InitLocals
    /\ NoDesign
    /\ NoDriver
    /\ NoGetDesign
    /\ NoBenchmark

\* mutant: the Design keeps the sequence it had
SyncDesignStale(dgseq, old) == old

\* lines 174, 243, 282, 290: design.sequence = dg.get_sequence()
SyncDesign(dgseq, old) == PyStr(dgseq)

\* mutant: the outer iteration is not counted
MfesAfterSkipped(n) == n

\* line 255: number_mfes += 1
MfesAfter(n) == n + 1

\* mutant: the MFE entry is appended whether or not the ledger holds it
LedgerAfterAlways(reached, mfe, negc, maxlen) ==
    IF ~reached THEN DequeAppend(negc, mfe, maxlen) ELSE negc

\* lines 284-286: the ledger at the end of an outer iteration
LedgerAfter(reached, mfe, negc, maxlen) ==
    IF ~reached /\ ~PyIn(mfe, negc) THEN DequeAppend(negc, mfe, maxlen) ELSE negc

\* mutant: the sampler is never reverted
SequenceAfterNoRevert(accepted, current, previous) == current

\* lines 274-290: the sampler's sequence at the end of an outer iteration
SequenceAfter(accepted, current, previous) ==
    IF accepted THEN current ELSE RevertSequence(current, previous)

\* lines 166-194
Start ==
    /\ pc = "init"
    /\ \E s \in Seqs :
        /\ IF ~PyTruthy(design_seq) THEN TRUE ELSE s = design_seq[2]
        /\ dg_seq' = s
        /\ dg_prev' = s
        /\ design_seq' = SyncDesign(s, design_seq)
        /\ scores' = ObjectiveScores(nobj, s)
        /\ scores0' = ObjectiveScores(nobj, s)
    /\ neg_constraints' = <<>>
    /\ number_objectives' = nobj
    /\ count' = 0
    /\ number_of_samples' = 0
    /\ number_samples' = 0
    /\ number_mfes' = 0
    /\ number_eos' = 0
    /\ sample_steps' = 1
    /\ cg_count' = 0
    /\ pc' = "inner"
    /\ UNCHANGED <<params, history_size, perfect, idx, err, since_accept, last, compat,
                   stall, outside_optimizer>>

\* mutant: the stall test one sample early
EscalatesEarly(cg) == cg >= CgLimit

\* line 204: the stall test
Escalates(cg) == cg > CgLimit

\* mutant: a fixed history size
HistorySizeFixed(steps) == HistoryPad

\* line 207: the history size asked of the sampler
HistorySizeFor(steps) == steps + HistoryPad

\* lines 200-221: one draw of the constraint generation loop
InnerSample ==
    /\ pc = "inner"
    /\ number_of_samples < MaxSamples(exit)
    /\ number_of_samples' = number_of_samples + 1
    /\ number_samples' = number_samples + 1
    /\ IF Escalates(cg_count)
       THEN /\ cg_count' = 1
            /\ sample_steps' = sample_steps + 1
            /\ history_size' = HistorySizeFor(sample_steps + 1)
            /\ history_calls' = Append(history_calls, history_size')
            /\ rejected' = 0
            /\ drawn' = 1
       ELSE /\ cg_count' = cg_count + 1
            /\ drawn' = drawn + 1
            /\ UNCHANGED <<sample_steps, history_size, history_calls, rejected>>
    /\ \E c \in Seqs :
        /\ dg_prev' = dg_seq
        /\ dg_seq' = c
        /\ design_seq' = PyStr(c)
    /\ perfect' = TRUE
    /\ number_eos' = number_eos + NumberOfStructures
    /\ idx' = Len(neg_constraints)
    /\ pc' = "check"
    /\ UNCHANGED <<params, neg_constraints, scores, count, number_mfes,
                   number_objectives, err, observed, outside_optimizer>>

\* an exception leaves the function
Raise(e) ==
    /\ pc' = "raised"
    /\ err' = e

\* lines 223-250: one negative constraint of the walk, newest first
CheckNeg ==
    /\ pc = "check"
    /\ IF idx = 0
       THEN /\ pc' = IF perfect THEN "outer" ELSE "inner"
            /\ UNCHANGED <<design_seq, dg_seq, number_eos, perfect, idx, err, compat,
                           rejected>>
       ELSE \E answer \in {"yes", "no", "TypeError"} :
            /\ compat' = answer
            /\ CASE answer = "TypeError" ->
                      /\ Raise("TypeError")
                      /\ UNCHANGED <<design_seq, dg_seq, number_eos, perfect, idx,
                                     rejected>>
                 [] answer = "no" ->
                      /\ idx' = idx - 1
                      /\ UNCHANGED <<pc, design_seq, dg_seq, number_eos, perfect, err,
                                     rejected>>
                 [] answer = "yes" ->
                      LET v == NegVerdict(ClassType(cls), design_seq[2],
                                          neg_constraints[idx], max_eos_diff)
                      IN  /\ number_eos' = number_eos + 1
                          /\ CASE v = "pass" ->
                                    /\ idx' = idx - 1
                                    /\ UNCHANGED <<pc, design_seq, dg_seq, perfect, err,
                                                   rejected>>
                               [] v = "reject" ->
                                    /\ perfect' = FALSE
                                    /\ dg_seq' = RevertSequence(dg_seq, dg_prev)
                                    /\ design_seq' = SyncDesign(dg_seq', design_seq)
                                    /\ pc' = "inner"
                                    /\ rejected' = rejected + 1
                                    /\ UNCHANGED <<idx, err>>
                               [] OTHER ->
                                    /\ Raise(v)
                                    /\ UNCHANGED <<design_seq, dg_seq, perfect, idx,
                                                   rejected>>
    /\ UNCHANGED <<params, dg_prev, history_size, neg_constraints, scores, count,
                   number_of_samples, number_samples, number_mfes,
                   number_objectives, sample_steps, cg_count,
                   scores0, since_accept, last, drawn, history_calls, outside_optimizer>>

\* lines 252-290: the body of the main loop after the inner loop
OuterStep ==
    /\ pc = "outer"
    /\ number_mfes' = MfesAfter(number_mfes)
    /\ LET cand == design_seq[2]
           mfe == DesignMfeStructure(cand)
           this_scores == ObjectiveScores(nobj, cand)
           reached == MfeReached(cand)
           accepted == reached /\ better(this_scores, scores)
       IN  /\ scores' = BestAfter(reached, this_scores, scores)
           /\ count' = CountAfter(accepted, count)
           /\ since_accept' = IF accepted THEN 0 ELSE since_accept + 1
           /\ number_objectives' =
                  IF reached THEN number_objectives + nobj ELSE number_objectives
           /\ dg_seq' = SequenceAfter(accepted, dg_seq, dg_prev)
           /\ IF accepted
              THEN /\ sample_steps' = 1
                   /\ cg_count' = 0
                   /\ rejected' = 0
                   /\ drawn' = 0
                   /\ UNCHANGED design_seq
              ELSE /\ design_seq' = SyncDesign(dg_seq', design_seq)
                   /\ UNCHANGED <<sample_steps, cg_count, rejected, drawn>>
           /\ neg_constraints' =
                  LedgerAfter(reached, mfe, neg_constraints, num_neg_constraints)
           /\ last' = [branch |-> IF accepted THEN "accepted"
                                  ELSE IF reached THEN "not_better"
                                  ELSE IF ~PyIn(mfe, neg_constraints) THEN "neg_added"
                                  ELSE "neg_known",
                       cand |-> cand,
                       full |-> Len(neg_constraints) = num_neg_constraints,
                       prev |-> scores]
    /\ pc' = "exit"
    /\ UNCHANGED <<params, dg_prev, history_size, number_of_samples,
                   number_samples, number_eos, perfect, idx, err, scores0, compat,
                   history_calls, outside_optimizer>>

\* lines 292-301
ExitCheck ==
    /\ pc = "exit"
    /\ pc' = IF ExitCondition(count, exit) THEN "returned" ELSE "inner"
    /\ UNCHANGED <<params, design_seq, dg_seq, dg_prev, history_size,
                   neg_constraints, scores, count, counters, sample_steps,
                   cg_count, perfect, idx, err, observed, stall, outside_optimizer>>

Next == Start \/ InnerSample \/ CheckNeg \/ OuterStep \/ ExitCheck

Spec == Init /\ [][Next]_vars

\* every step of the function is taken: the loop runs until it returns or raises
FairSpec == Spec /\ WF_vars(Next)

\* a run long enough for two stall escalations: exit = 2 * (CgLimit + 1), a
\* ledger of capacity 0 or 1, one objective and a Design that has its sequence
LongInit ==
    /\ cls = "vrnaDesign"
    /\ exit = 2 * (CgLimit + 1)
    /\ num_neg_constraints \in 0..1
    /\ max_eos_diff = 0
    /\ nobj = 1
    /\ design_seq = PyStr(1)
    /\ InitLocals
    /\ NoDesign
    /\ NoDriver
    /\ NoGetDesign
    /\ NoBenchmark

LongSpec == LongInit /\ [][Next]_vars

\* ------------------------------------------------------------- properties
\* the structure a sequence folds into is one of the target structures
FoldsIntoTarget(seq) == PyIn(PyStr(FoldMfe(seq)), DesignStructures)

\* the structure a ledger entry records
EntryStructures(negc) ==
    IF negc[1] = "dict" THEN {negc[2][k] : k \in DOMAIN negc[2]} ELSE {negc[2]}

LeqVec(a, b) == Len(a) = Len(b) /\ \A i \in 1..Len(a) : a[i] <= b[i]

Dominates(a, b) == LeqVec(a, b) /\ \E i \in 1..Len(a) : a[i] < b[i]

\* some target state is less than max_eos_diff above the ledger entry
GapBelow(seq, negc) ==
    \E s \in EntryStructures(negc) : \E k \in StateKeys :
        EnergyOfStruct(seq, s) - StateEos(seq, k) < max_eos_diff

\* C1: the ledger never holds more than num_neg_constraints entries, and an
\* insertion into a full ledger removes the oldest entry and only that one:
\* the others move up by one place and the candidate's MFE structure is last.
C1_LedgerBoundedOldestEvicted ==
    [][/\ Len(neg_constraints') <= num_neg_constraints
       /\ (neg_constraints' # neg_constraints /\ Len(neg_constraints) = num_neg_constraints)
            => /\ Len(neg_constraints') = Len(neg_constraints)
               /\ \A i \in 1..(Len(neg_constraints) - 1) :
                      neg_constraints'[i] = neg_constraints[i + 1]
               /\ neg_constraints'[Len(neg_constraints')] =
                      DesignMfeStructure(design_seq[2])]_vars

\* C1 witness: an insertion into a full ledger of capacity 2 has happened
C1_Witness ==
    /\ last.branch = "neg_added"
    /\ last.full
    /\ num_neg_constraints = 2
    /\ Len(neg_constraints) = 2
    /\ neg_constraints[2] = DesignMfeStructure(last.cand)

\* C2: no ledger entry records a structure that is one of the target
\* structures of the Design.
C2_NoTargetInLedger ==
    \A i \in 1..Len(neg_constraints) :
        \A s \in EntryStructures(neg_constraints[i]) :
            ~PyIn(PyStr(s), DesignStructures)

\* C3: a candidate that folds into a target is accepted (its scores become the
\* best scores) exactly if its scores dominate the best scores.
C3_AcceptedIffDominates ==
    [][(pc = "outer" /\ FoldsIntoTarget(design_seq[2]))
         => LET this_scores == ObjectiveScores(nobj, design_seq[2])
            IN  (last'.branch = "accepted" /\ scores' = this_scores)
                  <=> Dominates(this_scores, scores)]_vars

\* C4: an outer iteration whose candidate folds into a target and scores
\* exactly the best scores leaves the best scores unchanged, reverts the
\* sampler and the Design to the sequence before the mutation and does not
\* reset the outer counter.
C4_EqualScoresNotAccepted ==
    [][(/\ pc = "outer"
        /\ FoldsIntoTarget(design_seq[2])
        /\ ObjectiveScores(nobj, design_seq[2]) = scores)
         => /\ scores' = scores
            /\ dg_seq' = dg_prev
            /\ design_seq' = PyStr(dg_prev)
            /\ count' = count + 1]_vars

\* C4 witness: a second equal-scoring candidate, another sequence than the
\* best one and folding into a target, has been looked at
C4_Witness ==
    /\ pc = "exit"
    /\ count >= 2
    /\ last.branch # "none"
    /\ FoldsIntoTarget(last.cand)
    /\ last.cand # dg_seq
    /\ ObjectiveScores(nobj, last.cand) = last.prev
    /\ scores = last.prev

\* C5: a step of the loop never makes a best score larger, and the scores at
\* the return are component-wise at most the scores of the initial sequence.
C5_BestNeverWorse ==
    [][/\ pc # "init" => LeqVec(scores', scores)
       /\ pc' = "returned" => LeqVec(scores', scores0')]_vars

\* C5 witness: the run returned after at least two outer iterations, the last
\* of them on a candidate that scores worse than the best on some objective
C5_Witness ==
    /\ pc = "returned"
    /\ number_mfes >= 2
    /\ last.branch # "none"
    /\ ~LeqVec(ObjectiveScores(nobj, last.cand), scores)
    /\ LeqVec(scores, scores0)

\* C6: an outer iteration whose candidate folds into a target evaluates the
\* objective functions on it and does not touch the ledger.
C6_TargetMfeIsScored ==
    [][(pc = "outer" /\ FoldsIntoTarget(design_seq[2]))
         => /\ number_objectives' = number_objectives + nobj
            /\ neg_constraints' = neg_constraints]_vars

\* C7: a candidate that is compatible with a ledger entry less than
\* max_eos_diff below a target state is rejected: the sampler and the Design
\* go back to the sequence before the mutation and the inner loop retries.
C7_RejectedWhenGapBelow ==
    [][(/\ pc = "check"
        /\ idx > 0
        /\ compat' = "yes"
        /\ GapBelow(design_seq[2], neg_constraints[idx]))
         => /\ perfect' = FALSE
            /\ pc' = "inner"
            /\ dg_seq' = dg_prev
            /\ design_seq' = PyStr(dg_prev)]_vars

\* C8: a run with a vrnaDesign or a nupackDesign never raises the ValueError
\* 'Could not figure out the classtype of the Design object.'
C8_NoClasstypeError == err # "ValueError"

\* C9: at each exit check the outer counter is the number of outer iterations
\* completed since the last acceptance; the loop is left with the counter at
\* exit + 1 and is not left while the counter is at most exit.
C9_CounterAndExit ==
    /\ pc = "exit" => count = since_accept
    /\ pc = "returned" => (count = exit + 1 /\ since_accept = exit + 1)
    /\ pc \in {"inner", "check", "outer"} => count <= exit

\* C9 witness: the run returned after exit + 1 = 3 outer iterations
C9_Witness ==
    /\ pc = "returned"
    /\ exit = 2
    /\ number_mfes = 3
    /\ count = 3

\* C10: if every inner loop yields a candidate, the run returns.
C10_RunReturns ==
    [](pc = "check" => <>(pc = "outer")) => <>(pc = "returned")

\* C10 witness: a run with exit >= 1 has returned
C10_Witness ==
    /\ pc = "returned"
    /\ exit >= 1
    /\ number_samples = exit + 1

C13_InnerLoopExits == (pc \in {"inner", "check"}) ~> (pc = "outer")

\* C14: an outer iteration that accepts adopts the candidate's scores, sets
\* the step size to 1 and the counter to 0 and leaves the sampler alone; every
\* other outer iteration reverts the sampler, gives the Design the sampler's
\* sequence and leaves the step size unchanged.
C14_AcceptOrRevert ==
    [][pc = "outer" =>
        LET cand == design_seq[2]
            this_scores == ObjectiveScores(nobj, cand)
        IN  IF MfeReached(cand) /\ better(this_scores, scores)
            THEN /\ scores' = this_scores
                 /\ sample_steps' = 1
                 /\ count' = 0
                 /\ dg_seq' = dg_seq
                 /\ design_seq' = design_seq
            ELSE /\ dg_seq' = dg_prev
                 /\ design_seq' = PyStr(dg_prev)
                 /\ sample_steps' = sample_steps]_vars

\* C14 witness: an outer iteration whose candidate was another sequence than
\* the one before it has reverted the sampler and the Design
C14_Witness ==
    /\ pc = "exit"
    /\ last.branch # "accepted"
    /\ last.cand # dg_prev
    /\ dg_seq = dg_prev
    /\ design_seq = PyStr(dg_prev)

\* C15: after initialization, at the start of every inner-loop iteration, at
\* the end of every outer iteration and at return, the Design's sequence is
\* the sampler's current sequence.
C15_DesignFollowsSampler ==
    pc \in {"inner", "exit", "returned"} => design_seq = PyStr(dg_seq)

\* C15 witness: a run with exit = 0 has returned after an outer iteration
\* that reverted a candidate other than the sequence the sampler went back to
C15_Witness ==
    /\ pc = "returned"
    /\ last.cand # dg_seq
    /\ design_seq = PyStr(dg_seq)
    /\ exit = 0

\* ---------------------------------------------------------- Design object
\* longest string assigned to Design.sequence
MaxLen == 2
\* length of the target structures
SLen == 2

\* line 89: the character class of the sequence pattern
Nucleotides == {"A", "U", "G", "C", "+", "&"}

\* the characters the assigned strings are made of, one outside the alphabet
Chars == {"A", "X"}

\* the strings of length 0..n over Chars
Strings(n) == UNION {[1..m -> Chars] : m \in 0..n}

\* what a caller assigns to Design.sequence: a string or None
Assignable == {PyNone} \cup {PyStr(s) : s \in Strings(MaxLen)}

\* lines 52-56: the structures a Design is built from, well-formed dot-bracket
\* strings of length SLen
DotBrackets ==
    {[i \in 1..SLen |-> "."],
     [i \in 1..SLen |-> IF i = 1 THEN "(" ELSE IF i = SLen THEN ")" ELSE "."]}

\* line 89: re.match of the one-character pattern, anchored at the start
ReMatch(s) == Len(s) >= 1 /\ s[1] \in Nucleotides

\* line 89: isinstance(s, basestring) and re.match(...)
SequenceAccepted(s) == s[1] = "str" /\ ReMatch(s[2])

\* line 93: s == ''
IsEmptyString(s) == PyEq(s, PyStr(<<>>))

\* State.reset() of every State: no derived result is kept
StateResetAll(st) == [k \in DOMAIN st |-> PyNone]

\* lines 71-80 and 104: len(self.structures)
LenStructures(st) == Cardinality({st[k] : k \in DOMAIN st})

\* lines 27-40: Design(structures) with a list of 1..NStates structures and
\* the default sequence ''
DesignInit ==
    /\ cls = "vrnaDesign"
    /\ exit = 0
    /\ num_neg_constraints = 0
    /\ max_eos_diff = 0
    /\ nobj = 1
    /\ design_seq = PyNone
    /\ InitLocals
    /\ \E n \in 1..NStates : \E structures \in [0..n-1 -> DotBrackets] :
        d_state = [k \in {PyStr(i) : i \in 0..n-1} |-> structures[k[2]]]
    /\ d_sequence = PyNone
    /\ d_cache = StateResetAll(d_state)
    /\ d_number = 0
    /\ d_err = ""
    /\ d_last = [op |-> "init", arg |-> PyStr(<<>>)]
    /\ NoDriver
    /\ NoGetDesign
    /\ NoBenchmark

\* lines 88-97: the setter of Design.sequence
SetSequence ==
    \E s \in Assignable :
        /\ d_last' = [op |-> "set", arg |-> s]
        /\ IF SequenceAccepted(s)
           THEN /\ d_sequence' = s
                /\ d_cache' = StateResetAll(d_state)
                /\ d_err' = ""
           ELSE IF IsEmptyString(s)
           THEN /\ d_sequence' = PyNone
                /\ d_err' = ""
                /\ UNCHANGED d_cache
           ELSE /\ d_err' = "TypeError"
                /\ UNCHANGED <<d_sequence, d_cache>>
        /\ UNCHANGED <<d_state, d_number, outside_design>>

\* a read of a derived fold result of one State: computed for the current
\* sequence unless the State holds a cached one
ReadDerived ==
    /\ PyTruthy(d_sequence)
    /\ \E k \in DOMAIN d_state :
        /\ d_cache' = [d_cache EXCEPT
                          ![k] = IF PyEq(@, PyNone) THEN d_sequence ELSE @]
        /\ d_last' = [op |-> "derived", arg |-> k]
    /\ d_err' = ""
    /\ UNCHANGED <<d_state, d_sequence, d_number, outside_design>>

\* lines 258-259: vrnaDesign.newState puts a new State under the key
NewState ==
    /\ \E key \in StateKeys : \E struct \in DotBrackets :
        /\ d_state' = [k \in DOMAIN d_state \cup {key} |->
                          IF k = key THEN struct ELSE d_state[k]]
        /\ d_cache' = [k \in DOMAIN d_state \cup {key} |->
                          IF k = key THEN PyNone ELSE d_cache[k]]
        /\ d_last' = [op |-> "new", arg |-> key]
    /\ d_err' = ""
    /\ UNCHANGED <<d_sequence, d_number, outside_design>>

\* lines 99-106: a read of Design.number_of_structures
ReadNumberOfStructures ==
    /\ d_number' = IF d_number = 0 THEN LenStructures(d_state) ELSE d_number
    /\ d_last' = [op |-> "count", arg |-> PyInt(d_number')]
    /\ d_err' = ""
    /\ UNCHANGED <<d_state, d_sequence, d_cache, outside_design>>

DesignNext == SetSequence \/ ReadDerived \/ NewState \/ ReadNumberOfStructures

DesignSpec == DesignInit /\ [][DesignNext]_vars

\* C16: after every assignment to Design.sequence no State holds a derived
\* result that was computed for another sequence than the Design's.
C16_NoStaleDerived ==
    \A k \in DOMAIN d_cache :
        PyEq(d_cache[k], PyNone) \/ PyEq(d_cache[k], d_sequence)

\* C17: assigning a non-empty string with a character outside the nucleotide
\* alphabet, at any position, fails and leaves sequence and derived results
\* as they were.
C17_BadCharacterRefused ==
    [][(/\ d_last'.op = "set"
        /\ d_last'.arg[1] = "str"
        /\ \E i \in 1..Len(d_last'.arg[2]) : d_last'.arg[2][i] \notin Nucleotides)
           => /\ d_err' = "TypeError"
              /\ d_sequence' = d_sequence
              /\ d_cache' = d_cache]_vars

\* C18: assigning the empty string or None raises no error and leaves the
\* Design unset.
C18_UnsetIsAssignable ==
    [][(/\ d_last'.op = "set"
        /\ (IsEmptyString(d_last'.arg) \/ PyEq(d_last'.arg, PyNone)))
           => /\ d_err' = ""
              /\ PyEq(d_sequence', PyNone)]_vars

\* C19: a set sequence has the length of the target structure of every State.
C19_SequenceLengthMatches ==
    PyTruthy(d_sequence) =>
        \A k \in DOMAIN d_state : Len(d_sequence[2]) = Len(d_state[k])

\* C20: the value a read of number_of_structures returns is the number of
\* distinct target structures the States hold.
C20_CountIsCurrent ==
    d_last.op = "count" => d_last.arg[2] = LenStructures(d_state)

\* C21: the entries of the ledger are pairwise distinct.
C21_LedgerEntriesDistinct ==
    \A i \in 1..Len(neg_constraints) : \A j \in 1..Len(neg_constraints) :
        i # j => ~PyEq(neg_constraints[i], neg_constraints[j])

\* C21 witness: an outer iteration met an MFE entry the two-entry ledger
\* already held and did not insert it again
C21_Witness ==
    /\ pc = "exit"
    /\ last.branch = "neg_known"
    /\ Len(neg_constraints) = 2
    /\ PyIn(DesignMfeStructure(last.cand), neg_constraints)

\* C22: no step of a run makes a run counter smaller; the sample counters
\* grow by exactly 1 in each inner-loop iteration and in no other step, the MFE
\* counter by exactly 1 in each outer iteration and in no other step, and at
\* return samples >= MFE evaluations >= 1.
C22_CountersMonotone ==
    [][/\ number_of_samples' >= number_of_samples
       /\ number_samples' >= number_samples
       /\ number_mfes' >= number_mfes
       /\ number_objectives' >= number_objectives
       /\ number_eos' >= number_eos
       /\ number_of_samples' =
              IF pc = "inner" THEN number_of_samples + 1 ELSE number_of_samples
       /\ number_samples' = number_of_samples'
       /\ number_mfes' = IF pc = "outer" THEN number_mfes + 1 ELSE number_mfes
       /\ pc' = "returned" =>
              number_of_samples' >= number_mfes' /\ number_mfes' >= 1]_vars

\* C22 witness: a run has returned after three outer iterations
C22_Witness ==
    /\ pc = "returned"
    /\ number_mfes = 3
    /\ number_of_samples >= number_mfes
    /\ number_eos >= number_of_samples
    /\ number_objectives = nobj

\* C28: at the end of every outer iteration and at return the best scores are
\* the objective values of the sequence the Design holds, and the sampler
\* holds the same sequence.
C28_BestIsHeldSequence ==
    pc \in {"exit", "returned"} =>
        /\ design_seq[1] = "str"
        /\ scores = ObjectiveScores(nobj, design_seq[2])
        /\ design_seq = PyStr(dg_seq)

\* C28 witness: the run returned after at least two outer iterations, the
\* last of them reverted a candidate that scores differently from the
\* sequence held, and the best scores are those of the sequence held
C28_Witness ==
    /\ pc = "returned"
    /\ number_mfes >= 2
    /\ last.branch \in {"not_better", "neg_added", "neg_known"}
    /\ last.cand # dg_seq
    /\ ObjectiveScores(nobj, last.cand) # scores
    /\ design_seq = PyStr(dg_seq)
    /\ scores = ObjectiveScores(nobj, dg_seq)

\* C27: the inner loop looks at the ledger entries newest first, one place
\* older at each step, and an entry that causes a rejection (the candidate is
\* compatible with it and it lies less than max_eos_diff above a target
\* state) ends the walk for that candidate: the sampler is reverted once, the
\* Design follows, no older entry is looked at and the inner loop draws the
\* next candidate.
C27_NewestFirstStopAtRejection ==
    [][/\ (pc = "inner" /\ pc' = "check") => idx' = Len(neg_constraints)
       /\ (pc = "check" /\ pc' = "check") => idx' = idx - 1
       /\ (/\ pc = "check"
           /\ idx > 0
           /\ compat' = "yes"
           /\ GapBelow(design_seq[2], neg_constraints[idx]))
            => /\ pc' = "inner"
               /\ idx' = idx
               /\ rejected' = rejected + 1
               /\ number_eos' = number_eos + 1
               /\ dg_seq' = dg_prev
               /\ design_seq' = PyStr(dg_prev)]_vars

\* C29: a step of the inner loop leaves the best scores, the outer
\* non-improvement counter, the MFE counter, the objective counter and the
\* ledger as they are, and the ledger changes only in an outer iteration
\* whose candidate folds into none of the target structures.
C29_InnerFrameAndLedgerWriter ==
    [][/\ pc \in {"inner", "check"} =>
              UNCHANGED <<scores, count, number_mfes, number_objectives,
                          neg_constraints>>
       /\ neg_constraints' # neg_constraints =>
              pc = "outer" /\ ~FoldsIntoTarget(design_seq[2])]_vars

\* ------------------------------------------------------------ run driver
\* largest value of args.number
MaxNumber == 2
\* largest value of args.jump
MaxJump == 2

\* how rd.DependencyGraphMT(structures) inside `with timeout(...)` can end:
\* it returns, it raises, the alarm fires while it runs, or the alarm fires
\* after dg was assigned and before __exit__ cancels it
ConstructionOutcomes == {"ok", "error", "timeout", "late_timeout"}

\* lines 106 and 122: dg after the try block
DgAfter(outcome) == IF outcome \in {"ok", "late_timeout"} THEN "built" ELSE "None"

\* lines 124-125: the except branch writes the error
ReportedAfter(outcome) == outcome # "ok"

\* mutant: the runs are started whatever dg is
RunsAllowedAlways(dg) == TRUE

\* line 127: if (dg is not None)
RunsAllowed(dg) == dg # "None"

\* the list structures of the driver: the target structures of the states
DriverStructures == [i \in 1..NStates |-> StateStructure(PyStr(i - 1))[2]]

\* lines 46 and 274: the energies of a sequence in the structures
EosList(seq) == [i \in 1..NStates |-> EnergyOfStruct(seq, DriverStructures[i])]

\* RNA.fold(sequence)[1]: the lowest energy of the sequence in any structure
MfeEnergy(seq) ==
    CHOOSE m \in {EnergyOfStruct(seq, s) : s \in Structs} :
        \A s \in Structs : m <= EnergyOfStruct(seq, s)

\* RNA.pf_fold(sequence)[1]: the ensemble free energy, not above the MFE energy
PfEnergy(seq) == MfeEnergy(seq) - (seq % 2)

RECURSIVE SumFrom(_, _)
SumFrom(i, list) == IF i > Len(list) THEN 0 ELSE list[i] + SumFrom(i + 1, list)

Fabs(x) == IF x < 0 THEN 0 - x ELSE x

\* lines 278-281: the sum of |value - j| over all pairs of the list
RECURSIVE DifferencePart(_, _, _)
DifferencePart(i, j, list) ==
    IF i > Len(list) THEN 0
    ELSE IF j > Len(list) THEN DifferencePart(i + 1, i + 2, list)
    ELSE Fabs(list[i] - list[j]) + DifferencePart(i, j + 1, list)

\* lines 271-283
calculate_objective(seq) ==
    LET eos == EosList(seq)
    IN  SumFrom(1, eos) - Len(eos) * PfEnergy(seq) + 1 * DifferencePart(1, 2, eos)

\* line 229: what a run starts from, given the sampler's sequence
RunStart(seq) == [sequence |-> seq, score |-> calculate_objective(seq)]

\* mutant: an equal score is accepted too
AcceptsEqual(this_score, score) == this_score <= score

\* line 257
Accepts(this_score, score) == this_score < score

\* mutant: the run stops one trial early
StopsEarly(c, e) == c >= e

\* line 263
Stops(c, e) == c > e

\* mutant: every state is reported as reached
MfeReachedFlagAlways(eos, mfe_energy) == 1

\* lines 194-198
MfeReachedFlag(eos, mfe_energy) == IF eos = mfe_energy THEN 1 ELSE 0

\* line 195
EosMfeDiff(eos, mfe_energy) == eos - mfe_energy

\* line 71: the command line of the driver
DriverInit ==
    /\ p_pc = "construct"
    /\ a_number \in 0..MaxNumber
    /\ a_jump \in 0..MaxJump
    /\ a_exit \in 0..MaxExit
    /\ a_mode \in {"sample", "sample_global", "sample_local"}
    /\ a_csv \in BOOLEAN
    /\ p_dg = "None"
    /\ p_construction = "none"
    /\ p_reported = FALSE
    /\ p_attempts = 0
    /\ p_n = 0
    /\ p_seq = 0
    /\ p_score = 0
    /\ p_count = 0
    /\ p_jumps = 0
    /\ p_i = 0
    /\ p_result = NoResult
    /\ p_report = NoReport
    /\ p_trial = NoTrial
    /\ p_left = NoLeft
    /\ cls = "vrnaDesign"
    /\ exit = 0
    /\ num_neg_constraints = 0
    /\ max_eos_diff = 0
    /\ nobj = 1
    /\ design_seq = PyNone
    /\ InitLocals
    /\ NoDesign
    /\ NoGetDesign
    /\ NoBenchmark

\* lines 118-125: the construction of the dependency graph
Construct ==
    /\ p_pc = "construct"
    /\ \E outcome \in ConstructionOutcomes :
        /\ p_construction' = outcome
        /\ p_dg' = DgAfter(outcome)
        /\ p_reported' = ReportedAfter(outcome)
        /\ IF DgAfter(outcome) = "built"
           THEN p_seq' \in Seqs
           ELSE p_seq' = p_seq
    /\ p_attempts' = p_attempts + 1
    /\ p_pc' = "main"
    /\ UNCHANGED <<args, p_n, p_score, p_count, p_jumps, p_i, p_result, p_report,
                   p_trial, p_left, outside_driver>>

\* lines 185-187 and 225-233: the next run is started
StartRun ==
    /\ p_pc = "main"
    /\ RunsAllowed(p_dg)
    /\ p_n < a_number
    /\ p_n' = p_n + 1
    /\ p_left' = [sequence |-> p_seq, score |-> p_score]
    /\ p_score' = RunStart(p_seq).score
    /\ p_count' = 0
    /\ p_jumps' = a_jump
    /\ p_i' = 0
    /\ p_trial' = NoTrial
    /\ p_pc' = "trial"
    /\ UNCHANGED <<args, p_dg, p_construction, p_reported, p_attempts, p_seq,
                   p_result, p_report, outside_driver>>

\* lines 234-265: one trial of optimization_run
Trial ==
    /\ p_pc = "trial"
    /\ \E cand \in Seqs :
        LET jumping == p_jumps # 0
            count0 == IF jumping THEN 0 ELSE p_count
            this_score == calculate_objective(cand)
            accepted == Accepts(this_score, p_score)
        IN  /\ p_jumps' = IF jumping THEN p_jumps - 1 ELSE p_jumps
            /\ p_trial' = [kind |-> IF jumping THEN "jump" ELSE a_mode,
                           cand |-> cand,
                           this_score |-> this_score,
                           accepted |-> accepted,
                           before |-> p_score,
                           reset |-> jumping]
            /\ IF accepted
               THEN /\ p_score' = this_score
                    /\ p_count' = 0
                    /\ p_seq' = cand
                    /\ p_i' = p_i + 1
                    /\ p_pc' = "trial"
               ELSE /\ p_seq' = RevertSequence(cand, p_seq)
                    /\ p_count' = count0 + 1
                    /\ p_score' = p_score
                    /\ IF Stops(count0 + 1, a_exit)
                       THEN p_pc' = "result" /\ p_i' = p_i
                       ELSE p_pc' = "trial" /\ p_i' = p_i + 1
    /\ UNCHANGED <<args, p_dg, p_construction, p_reported, p_attempts, p_n,
                   p_result, p_report, p_left, outside_driver>>

\* lines 268, 34-48 and 188-221: the Result of the run and its report
ReportRun ==
    /\ p_pc = "result"
    /\ p_result' = [sequence |-> p_seq,
                    score |-> p_score,
                    number_of_mutations |-> p_i,
                    eos |-> EosList(p_seq),
                    mfe_energy |-> MfeEnergy(p_seq)]
    /\ p_report' =
           IF a_csv
           THEN [mfe_reached |->
                     [i \in 1..NStates |->
                         MfeReachedFlag(EosList(p_seq)[i], MfeEnergy(p_seq))],
                 diff_eos_mfe |->
                     [i \in 1..NStates |->
                         EosMfeDiff(EosList(p_seq)[i], MfeEnergy(p_seq))]]
           ELSE NoReport
    /\ p_pc' = "main"
    /\ UNCHANGED <<args, p_dg, p_construction, p_reported, p_attempts, p_n, p_seq,
                   p_score, p_count, p_jumps, p_i, p_trial, p_left, outside_driver>>

\* lines 127 and 185: no run is left to start
Finish ==
    /\ p_pc = "main"
    /\ ~(RunsAllowed(p_dg) /\ p_n < a_number)
    /\ p_pc' = "done"
    /\ UNCHANGED <<args, p_dg, p_construction, p_reported, p_attempts, p_n, p_seq,
                   p_score, p_count, p_jumps, p_i, p_result, p_report, p_trial,
                   p_left, outside_driver>>

DriverNext == Construct \/ StartRun \/ Trial \/ ReportRun \/ Finish

DriverSpec == DriverInit /\ [][DriverNext]_vars

\* C23: in the csv report of a run, for every state i the flag mfe_reached is
\* 1 exactly when the energy of the sequence in target i equals its MFE
\* energy, the reported gap is eos minus MFE energy, it is 0 when the flag is
\* 1, and the flag is 0 when the gap is not 0.
C23_ReachedIffNoGap ==
    p_report # NoReport =>
        \A i \in 1..NStates :
            LET eos == EnergyOfStruct(p_result.sequence, DriverStructures[i])
                mfe_energy == MfeEnergy(p_result.sequence)
            IN  /\ p_report.mfe_reached[i] \in {0, 1}
                /\ p_report.mfe_reached[i] = 1 <=> eos = mfe_energy
                /\ p_report.diff_eos_mfe[i] = eos - mfe_energy
                /\ p_report.mfe_reached[i] = 1 => p_report.diff_eos_mfe[i] = 0
                /\ p_report.diff_eos_mfe[i] # 0 => p_report.mfe_reached[i] = 0

\* C23 witness: a report in which one state reached the MFE energy and
\* another did not
C23_Witness ==
    /\ p_report # NoReport
    /\ \E i \in 1..NStates :
        p_report.mfe_reached[i] = 1 /\ p_report.diff_eos_mfe[i] = 0
    /\ \E i \in 1..NStates :
        p_report.mfe_reached[i] = 0 /\ p_report.diff_eos_mfe[i] > 0

\* C24: when the construction raised or timed out, the error was reported, no
\* run was started and the construction was tried once; runs are started only
\* with a constructed sampler.
C24_NoRunWithoutSampler ==
    /\ p_attempts <= 1
    /\ p_construction \in {"error", "timeout"} =>
           p_reported /\ p_n = 0 /\ p_attempts = 1 /\ p_dg = "None"
    /\ p_n > 0 => p_dg = "built" /\ p_construction \in {"ok", "late_timeout"}

\* C24 witness: the driver is done after a construction that timed out, with
\* runs requested and none made
C24_Witness ==
    /\ p_pc = "done"
    /\ p_construction = "timeout"
    /\ a_number >= 1
    /\ p_n = 0
    /\ p_reported

\* C25: the starting sequence and the initial score of a run after the first
\* are the same whatever sequence the run before left in the sampler.
C25_RunStartIndependent ==
    [][(p_pc = "main" /\ p_pc' = "trial" /\ p_n >= 1) =>
           \A alt \in Seqs :
               RunStart(alt) = [sequence |-> p_seq', score |-> p_score']]_vars

\* C30: in optimization_run the trials with index below jump are
\* unconditioned samples and each starts the counter of non-improving trials
\* anew, the later ones use the configured mode; a trial is accepted exactly
\* when its score is strictly lower than the best, otherwise the sampler is
\* reverted; the run stops exactly when the non-improving trials counted since
\* the last acceptance or jump exceed exit, for exit >= 1 never before all jump
\* trials were made; and the sampler's sequence is the one that has the score.
C30_JumpsThenModeUntilExit ==
    [][p_pc = "trial" =>
        LET t == p_trial'
            streak == IF t.accepted THEN 0
                      ELSE (IF t.kind = "jump" THEN 0 ELSE p_count) + 1
        IN  /\ p_i < a_jump => t.kind = "jump"
            /\ p_i >= a_jump => t.kind = a_mode
            /\ t.accepted <=> t.this_score < p_score
            /\ t.this_score = calculate_objective(t.cand)
            /\ t.accepted => p_score' = t.this_score /\ p_seq' = t.cand
            /\ ~t.accepted => p_score' = p_score /\ p_seq' = p_seq
            /\ p_count' = streak
            /\ p_pc' = "result" <=> streak > a_exit
            /\ (p_pc' = "result" /\ a_exit >= 1) => p_i >= a_jump
            /\ p_score' = calculate_objective(p_seq')]_vars

\* C30 witness: a run with jump = 2 and exit = 1 has stopped after more than
\* two trials, the last one in the configured mode, and holds another
\* sequence than the one it started from
C30_Witness ==
    /\ p_pc = "result"
    /\ a_jump = 2
    /\ a_exit = 1
    /\ p_i > a_jump
    /\ p_trial.kind = a_mode
    /\ p_count = 2
    /\ p_seq # p_left.sequence
    /\ p_score = calculate_objective(p_seq)

\* ------------------------------------------------------------ get_Design
\* largest temperature passed to get_Design
MaxTemp == 9
\* the default temperature of newState
DefaultTemperature == 37

\* the package strings tried: the four known ones and another
Packages == {"nupack", "vrna", "pkiss", "hotknots", "other"}

\* lines 294-303: the class built for a package
PackageClass(package) ==
    CASE package = "nupack" -> "nupackDesign"
      [] package = "vrna" -> "vrnaDesign"
      [] package = "pkiss" -> "pkissDesign"
      [] package = "hotknots" -> "hotknotsDesign"
      [] OTHER -> "ValueError"

\* line 306: if temperature
TemperatureSet(temperature) == temperature[1] = "int" /\ temperature[2] # 0

\* lines 58 and 306-308: the temperature of a State of the returned Design
StateTemperature(temperature) ==
    IF TemperatureSet(temperature) THEN temperature[2] ELSE DefaultTemperature

\* the arguments of a call
GetDesignInit ==
    /\ g_pc = "call"
    /\ g_package \in Packages
    /\ g_temperature \in {PyNone} \cup {PyInt(x) : x \in 0..MaxTemp}
    /\ g_states \in 1..NStates
    /\ g_design = <<>>
    /\ g_err = ""
    /\ cls = "vrnaDesign"
    /\ exit = 0
    /\ num_neg_constraints = 0
    /\ max_eos_diff = 0
    /\ nobj = 1
    /\ design_seq = PyNone
    /\ InitLocals
    /\ NoDesign
    /\ NoDriver
    /\ NoBenchmark

\* lines 285-309
get_Design ==
    /\ g_pc = "call"
    /\ g_pc' = "returned"
    /\ IF PackageClass(g_package) = "ValueError"
       THEN /\ g_err' = "ValueError"
            /\ UNCHANGED g_design
       ELSE /\ g_design' = [class |-> PackageClass(g_package),
                            temperature |->
                                [k \in 1..g_states |-> StateTemperature(g_temperature)]]
            /\ UNCHANGED g_err
    /\ UNCHANGED <<g_package, g_temperature, g_states, outside_get_Design>>

GetDesignSpec == GetDesignInit /\ [][get_Design]_vars

\* C26: get_Design returns a Design of the class of the package and raises
\* ValueError for another package; with a temperature argument every State has
\* that temperature, 0 included, and without one every State has 37.0.
C26_ClassAndTemperature ==
    g_pc = "returned" =>
        IF g_package \in {"nupack", "vrna", "pkiss", "hotknots"}
        THEN /\ g_err = ""
             /\ g_design.class = PackageClass(g_package)
             /\ \A k \in 1..g_states :
                    g_design.temperature[k] =
                        IF PyEq(g_temperature, PyNone) THEN DefaultTemperature
                        ELSE g_temperature[2]
        ELSE g_err = "ValueError"

\* ------------------------------------------------- benchmark (main loop)
\* src/benchmarks/optimization_duration_multithread.py

\* the values of d the model follows: 0, BenchStep, ..., (BenchRounds - 1) * BenchStep
BenchRounds == 2
\* line 72: xrange(0, 50000, 50)
BenchLimit == 50000
BenchStep == 50
\* line 74: range(0, 10)
BenchTrials == 10

\* lines 136-139: the sum of (value - j)^2 over all pairs of the list
RECURSIVE SquaredDifferencePart(_, _, _)
SquaredDifferencePart(i, j, list) ==
    IF i > Len(list) THEN 0
    ELSE IF j > Len(list) THEN SquaredDifferencePart(i + 1, i + 2, list)
    ELSE (list[i] - list[j]) * (list[i] - list[j])
             + SquaredDifferencePart(i, j + 1, list)

\* lines 129-141: calculate_objective of the benchmark
bench_calculate_objective(seq) ==
    LET eos == EosList(seq)
    IN  SumFrom(1, eos) - Len(eos) * PfEnergy(seq)
            + 1 * SquaredDifferencePart(1, 2, eos)

\* lines 88-89: dg.mutate_global() is an argument of the progress line
MutatesGlobally(progress) == progress

\* lines 88-92: the sequence that is scored, m being what a global mutation draws
SequenceScored(progress, m, seq) == IF MutatesGlobally(progress) THEN m ELSE seq

\* lines 95-97: result_seq after an iteration
ResultSeqAfter(improved, seq, result_seq) == IF improved THEN seq ELSE result_seq

\* line 72: the loop over d goes on
MoreRounds(d) == d < BenchLimit /\ d < BenchRounds * BenchStep

BenchmarkInit ==
    /\ b_pc = "trial"
    /\ b_progress \in BOOLEAN
    /\ b_d = 0
    /\ b_n = 0
    /\ b_seq \in Seqs
    /\ b_score = 0
    /\ b_count = 0
    /\ b_i = 0
    /\ b_result_seq = 0
    /\ b_mutated = FALSE
    /\ b_results = 0
    /\ cls = "vrnaDesign"
    /\ exit = 0
    /\ num_neg_constraints = 0
    /\ max_eos_diff = 0
    /\ nobj = 1
    /\ design_seq = PyNone
    /\ InitLocals
    /\ NoDesign
    /\ NoDriver
    /\ NoGetDesign

\* lines 74-82: a trial starts from a freshly sampled sequence
BenchStartTrial ==
    /\ b_pc = "trial"
    /\ \E s \in Seqs :
          /\ b_seq' = s
          /\ b_result_seq' = s
          /\ b_score' = bench_calculate_objective(s)
    /\ b_count' = 0
    /\ b_i' = 0
    /\ b_mutated' = FALSE
    /\ b_pc' = "loop"
    /\ UNCHANGED <<b_progress, b_d, b_n, b_results, outside_benchmark>>

\* lines 86-102: one iteration of the mutation loop
BenchIterate ==
    /\ b_pc = "loop"
    /\ b_i < b_d
    /\ \E m \in Seqs :
          LET seq == SequenceScored(b_progress, m, b_seq)
              this_score == bench_calculate_objective(seq)
              improved == this_score < b_score
          IN  /\ b_seq' = seq
              /\ b_mutated' = MutatesGlobally(b_progress)
              /\ b_score' = IF improved THEN this_score ELSE b_score
              /\ b_result_seq' = ResultSeqAfter(improved, seq, b_result_seq)
              /\ b_count' = IF improved THEN 0 ELSE b_count + 1
              /\ b_pc' = IF ~improved /\ b_count' > b_d THEN "break" ELSE "loop"
    /\ b_i' = b_i + 1
    /\ UNCHANGED <<b_progress, b_d, b_n, b_results, outside_benchmark>>

\* lines 105-110: the Result of the trial is appended
BenchEndTrial ==
    /\ \/ b_pc = "break"
       \/ b_pc = "loop" /\ b_i >= b_d
    /\ b_results' = b_results + 1
    /\ b_n' = b_n + 1
    /\ b_pc' = IF b_n' < BenchTrials THEN "trial" ELSE "report"
    /\ UNCHANGED <<b_progress, b_d, b_seq, b_score, b_count, b_i, b_result_seq,
                   b_mutated, outside_benchmark>>

\* lines 112-125 and 72-73: the line of d is reported, the next d starts
BenchReport ==
    /\ b_pc = "report"
    /\ b_d' = b_d + BenchStep
    /\ b_n' = 0
    /\ b_results' = 0
    /\ b_pc' = IF MoreRounds(b_d') THEN "trial" ELSE "done"
    /\ UNCHANGED <<b_progress, b_seq, b_score, b_count, b_i, b_result_seq,
                   b_mutated, outside_benchmark>>

BenchmarkNext == BenchStartTrial \/ BenchIterate \/ BenchEndTrial \/ BenchReport

BenchmarkSpec == BenchmarkInit /\ [][BenchmarkNext]_vars

\* C31: every iteration of the benchmark loop mutates the sampler's sequence
\* globally before it is scored, with and without progress output; the
\* tracked result sequence is the one the tracked best score was computed
\* from; the non-improvement counter is never above d.
C31_MutateTrackBound ==
    [][/\ (b_pc = "loop" /\ b_i' = b_i + 1) => b_mutated'
       /\ b_pc' \in {"loop", "break", "report"} =>
              /\ b_score' = bench_calculate_objective(b_result_seq')
              /\ b_count' <= b_d']_vars

====
